---- MODULE Spec2Model ----
(***************************************************************************)
(* Model of the two programs of the repository:                            *)
(*   sim/scripts/verify_trace.py   - the trace verifier                    *)
(*   tools/generate_itch_data.py   - the ITCH Add Order generator          *)
(*                                                                         *)
(* Spec      : one run of verify_trace.py (main, self_test, load_trace,    *)
(*             compare_traces), row by row and field class by field class. *)
(* SpecPack  : pack_add_order applied to inputs drawn from bounded sets.   *)
(* SpecGen   : runs of generate_itch_data.py, with --input or --synthetic. *)
(***************************************************************************)
EXTENDS Integers, Sequences, FiniteSets, TLC

VARIABLES
    \* ---- verify_trace.py ----
    pc,            \* position of the verifier run
    self_test,     \* args.self_test
    golden_exists, \* Path(golden_path).exists()
    hw_exists,     \* Path(args.hardware).exists()
    tolerance,     \* the tolerance handed to compare_traces (a float)
    golden_len,    \* len(golden)
    hw_len,        \* len(hardware)
    golden_cols,   \* the columns the golden trace declares
    hw_cols,       \* the columns the hardware trace declares
    i,             \* the loop variable of compare_traces
    g_raw,         \* g[field] of the field class read last ("<absent>" when not in g)
    h_raw,         \* h[field] of the field class read last
    order_ok,      \* order_ok of the current row
    mismatches,    \* mismatches of the current row
    results,       \* the results dict of compare_traces
    exit_code,     \* the process exit status, -1 while running
    disagree,      \* history: the fields of the current row, present on both sides,
                   \* that disagree under the policy of their class
    \* ---- generate_itch_data.py ----
    gpc,           \* position of the generator run
    call,          \* the arguments of the pack_add_order call made last
    ret,           \* what that call returned or raised
    row_stock,     \* the symbol cell of the source row handled last, as read
    order_ref,     \* order_ref of generate_from_csv / generate_synthetic
    timestamp_ns,  \* timestamp_ns of generate_from_csv / generate_synthetic
    written,       \* the records written to the binary file so far
    input_exists,  \* Path(args.input).exists()
    csv_rows,      \* the number of data rows of the source file
    csv_wanted,    \* args.csv is given: write_output gets a csv_path
    csv_open,      \* csv_file of write_output is open
    bin_open,      \* bf of write_output is open
    gen_exit,      \* the generator's exit status, -1 while running
    synthetic,     \* args.synthetic
    num_orders,    \* args.num_orders
    run            \* how many runs of the generator were started

vvars == <<pc, self_test, golden_exists, hw_exists, tolerance, golden_len, hw_len,
           golden_cols, hw_cols, i, g_raw, h_raw, order_ok, mismatches, results, exit_code,
           disagree>>
gvars == <<gpc, call, ret, row_stock, order_ref, timestamp_ns, written, input_exists,
           csv_rows, csv_wanted, csv_open, bin_open, gen_exit, synthetic, num_orders, run>>
vars == <<vvars, gvars>>

(***************************************************************************)
(* Bounds of the model.                                                    *)
(***************************************************************************)
MaxRows == 2        \* longest trace loaded
MaxCsvRows == 2     \* most data rows of a source price file
MaxOrders == 2      \* largest --num-orders
MaxRuns == 2        \* most runs of the generator, one after the other
MantissaBits == 6   \* significant bits of the model's binary floats
GridBits == 24      \* floats are multiples of 2^-GridBits

(***************************************************************************)
(* Python floats.  A finite float is kept as an integer count of           *)
(* 2^-GridBits; it has at most MantissaBits significant bits.  Every       *)
(* conversion and every subtraction rounds to nearest, ties to even.       *)
(***************************************************************************)
Pow2(n) == 2 ^ n

Pow10(n) == 10 ^ n

Abs(x) == IF x < 0 THEN -x ELSE x

\* num / den rounded to the nearest integer, ties to even
RoundDiv(num, den) ==
    LET q == num \div den
        r == num % den
    IN  IF 2 * r < den THEN q
        ELSE IF 2 * r > den THEN q + 1
        ELSE IF q % 2 = 0 THEN q ELSE q + 1

\* the least k >= from with num / den < 2^(MantissaBits + k)
RECURSIVE Exponent(_, _, _)
Exponent(num, den, from) ==
    IF (num \div Pow2(MantissaBits + from)) < den THEN from
    ELSE Exponent(num, den, from + 1)

\* the float nearest to num / den grid units (num, den > 0 or num = 0)
RoundToFloat(num, den) ==
    IF num = 0 THEN 0
    ELSE LET k == Exponent(num, den, 0)
         IN  RoundDiv(num, den * Pow2(k)) * Pow2(k)

NaN == [kind |-> "nan"]
Fin(v) == [kind |-> "fin", v |-> v]
ValueError == [kind |-> "ValueError"]

\* What each literal of the model's vocabulary denotes: sign * digits / 10^scale.
Lexeme(s) ==
    CASE s = "0.50"    -> [sign |-> 1, digits |-> 50, scale |-> 2]
      [] s = "0.51"    -> [sign |-> 1, digits |-> 51, scale |-> 2]
      [] s = "0.01"    -> [sign |-> 1, digits |-> 1, scale |-> 2]
      [] s = "0.00"    -> [sign |-> 1, digits |-> 0, scale |-> 2]
      [] s = "-0.0001" -> [sign |-> -1, digits |-> 1, scale |-> 4]
      [] s = "1"       -> [sign |-> 1, digits |-> 1, scale |-> 0]
      [] s = "1.7"     -> [sign |-> 1, digits |-> 17, scale |-> 1]
      [] s = "2"       -> [sign |-> 1, digits |-> 2, scale |-> 0]
      [] s = "nan"     -> [sign |-> 0, digits |-> 0, scale |-> 0]
      [] OTHER         -> [sign |-> 0, digits |-> -1, scale |-> 0]

\* the literals of the model's vocabulary
Literals == {"0.50", "0.51", "0.01", "0.00", "-0.0001", "1", "1.7", "2", "nan", "abc"}

\* float(s): ValueError for text that is no number, nan for "nan", otherwise the
\* float nearest to the decimal written.
ParseFloat(s) ==
    LET l == Lexeme(s)
    IN  IF l.digits < 0 THEN ValueError
        ELSE IF l.sign = 0 THEN NaN
        ELSE Fin(l.sign * RoundToFloat(l.digits * Pow2(GridBits), Pow10(l.scale)))

FloatOfLiteral == [s \in Literals |-> ParseFloat(s)]

Float(s) == FloatOfLiteral[s]

\* a - b in float arithmetic (nan when either is nan)
FloatSub(a, b) ==
    IF a.kind = "nan" \/ b.kind = "nan" THEN NaN
    ELSE LET d == a.v - b.v
         IN  Fin((IF d < 0 THEN -1 ELSE 1) * RoundToFloat(Abs(d), 1))

\* abs(x)
FloatAbs(x) == IF x.kind = "nan" THEN x ELSE Fin(Abs(x.v))

\* x > y; every comparison with nan is False
FloatGt(x, y) == x.kind = "fin" /\ y.kind = "fin" /\ x.v > y.v

\* int(x): truncation toward zero; ValueError for nan
IntOfFloat(x) ==
    IF x.kind # "fin" THEN ValueError
    ELSE Fin((IF x.v < 0 THEN -1 ELSE 1) * (Abs(x.v) \div Pow2(GridBits)))

\* int(float(s))
IntOfText(s) == LET f == Float(s) IN IF f.kind = "ValueError" THEN f ELSE IntOfFloat(f)

(***************************************************************************)
(* verify_trace.py                                                         *)
(***************************************************************************)
EXACT_FIELDS == <<"side", "price", "shares", "matched", "match_price", "match_qty">>

APPROX_FIELDS == <<"moe_confidence">>

CATEGORY_FIELDS == <<"moe_action">>

DEFAULT_TOLERANCE == Float("0.01")

Range(seq) == {seq[k] : k \in 1..Len(seq)}

Min(a, b) == IF a < b THEN a ELSE b

Max(a, b) == IF a < b THEN b ELSE a

\* The traces of the model.  A loaded trace declares a set of columns (its
\* header) and every one of its rows has a stripped string in each of them.
Absent == "<absent>"
ColumnSets ==
    { {"price", "moe_confidence", "moe_action", "stock"},
      {"price", "moe_confidence"},
      {"price", "moe_action", "stock"} }
ExactVals == {"100", "101"}
ApproxVals == {"0.50", "0.51", "0.01", "-0.0001", "abc", "nan"}
CategoryVals == {"1", "1.7", "2", "abc"}
StockVals == {"AAPL"}
ToleranceArgs == {"0.01", "0.00"}

ValsOf(f) ==
    IF f \in Range(EXACT_FIELDS) THEN ExactVals
    ELSE IF f \in Range(APPROX_FIELDS) THEN ApproxVals
    ELSE IF f \in Range(CATEGORY_FIELDS) THEN CategoryVals
    ELSE StockVals

\* row[f] for the fields of one class, of a row of a trace declaring cols
Cells(fields, cols) ==
    LET present == Range(fields) \cap cols
    IN  { [f \in Range(fields) |-> IF f \in present THEN c[f] ELSE Absent] :
            c \in [present -> ValsOf(Head(fields))] }

\* str.strip(): load_trace has stripped every value it hands over (line 91)
Strip(s) == s

NoResults == [total |-> 0, passed |-> 0, failed |-> 0, details |-> <<>>]

\* lines 121-123: the rows the loop visits
NumRowsMut(golden, hardware) == Max(golden, hardware)

NumRows(golden, hardware) == Min(golden, hardware)

\* lines 131-138: the mismatches the exact-match loop appends
RECURSIVE ExactLoop(_, _, _)
ExactLoop(fields, g, h) ==
    IF fields = <<>> THEN <<>>
    ELSE LET f == Head(fields)
             rest == ExactLoop(Tail(fields), g, h)
         IN  IF g[f] = Absent \/ h[f] = Absent THEN rest
             ELSE IF Strip(g[f]) # Strip(h[f])
                  THEN <<[field |-> f, kind |-> "differs"]>> \o rest
                  ELSE rest

\* lines 144-155: one tolerance field, both sides present
ApproxField(f, gs, hs, tol) ==
    LET g_val == Float(gs)
        h_val == Float(hs)
    IN  IF g_val.kind = "ValueError" \/ h_val.kind = "ValueError"
        THEN <<[field |-> f, kind |-> "parse error"]>>
        ELSE IF FloatGt(FloatAbs(FloatSub(g_val, h_val)), tol)
             THEN <<[field |-> f, kind |-> "delta"]>>
             ELSE <<>>

\* lines 141-155: the mismatches the approximate-match loop appends
RECURSIVE ApproxLoop(_, _, _, _)
ApproxLoop(fields, g, h, tol) ==
    IF fields = <<>> THEN <<>>
    ELSE LET f == Head(fields)
             rest == ApproxLoop(Tail(fields), g, h, tol)
         IN  IF g[f] = Absent \/ h[f] = Absent THEN rest
             ELSE ApproxField(f, g[f], h[f], tol) \o rest

\* lines 161-162: int(float(...)) raises on one of the two sides of some field
CategoryRaises(fields, g, h) ==
    \E k \in 1..Len(fields) :
        LET f == fields[k]
        IN  /\ g[f] # Absent /\ h[f] # Absent
            /\ \/ IntOfText(g[f]).kind = "ValueError"
               \/ IntOfText(h[f]).kind = "ValueError"

\* lines 158-169: the mismatches the category loop appends when nothing raises
RECURSIVE CategoryLoop(_, _, _)
CategoryLoop(fields, g, h) ==
    IF fields = <<>> THEN <<>>
    ELSE LET f == Head(fields)
             rest == CategoryLoop(Tail(fields), g, h)
         IN  IF g[f] = Absent \/ h[f] = Absent THEN rest
             ELSE IF IntOfText(g[f]).v # IntOfText(h[f]).v
                  THEN <<[field |-> f, kind |-> "label"]>> \o rest
                  ELSE rest

\* lines 171-179: the row's tally
TallyMut(res, idx, ok, stock, mm) ==
    [res EXCEPT !.failed = @ + 1,
                !.details = IF ok THEN @ ELSE Append(@, [order_idx |-> idx, stock |-> stock,
                                                         mismatches |-> mm])]

TallyIdxMut(res, idx, ok, stock, mm) ==
    IF ok THEN [res EXCEPT !.passed = @ + 1]
    ELSE [res EXCEPT !.failed = @ + 1,
                     !.details = Append(@, [order_idx |-> 0, stock |-> stock,
                                            mismatches |-> mm])]

Tally(res, idx, ok, stock, mm) ==
    IF ok THEN [res EXCEPT !.passed = @ + 1]
    ELSE [res EXCEPT !.failed = @ + 1,
                     !.details = Append(@, [order_idx |-> idx, stock |-> stock,
                                            mismatches |-> mm])]

\* main, line 292: the verdict that decides the exit status
VerdictOkMut(res) == res.failed = 0

VerdictOk(res) == res.failed = 0 /\ res.total > 0

\* The comparison policy of each field class, stated on one field: exact fields
\* differ as trimmed text; a tolerance field has a side that is no number or the
\* two floats differ by more than the tolerance; a category field has a side
\* that is no integer or the two integers differ.
FieldDisagrees(f, gs, hs, tol) ==
    IF f \in Range(EXACT_FIELDS) THEN gs # hs
    ELSE IF f \in Range(APPROX_FIELDS)
         THEN \/ Float(gs).kind = "ValueError"
              \/ Float(hs).kind = "ValueError"
              \/ FloatGt(FloatAbs(FloatSub(Float(gs), Float(hs))), tol)
    ELSE \/ IntOfText(gs).kind = "ValueError"
         \/ IntOfText(hs).kind = "ValueError"
         \/ IntOfText(gs).v # IntOfText(hs).v

\* the fields of one class that both rows hold and that disagree
Disagreeing(fields, g, h, tol) ==
    { f \in Range(fields) :
        g[f] # Absent /\ h[f] # Absent /\ FieldDisagrees(f, g[f], h[f], tol) }

GenIdle ==
    /\ gpc = "idle" /\ call = <<>> /\ ret = <<>> /\ row_stock = <<>>
    /\ order_ref = 0 /\ timestamp_ns = <<>> /\ written = <<>> /\ gen_exit = -1
    /\ input_exists = FALSE /\ csv_rows = 0
    /\ csv_wanted = FALSE /\ csv_open = FALSE /\ bin_open = FALSE
    /\ synthetic = FALSE /\ num_orders = 0 /\ run = 0

Init ==
    /\ pc = "main"
    /\ self_test \in BOOLEAN
    /\ golden_exists \in BOOLEAN
    /\ hw_exists \in BOOLEAN
    /\ tolerance \in {Float(t) : t \in ToleranceArgs}
    /\ golden_len = 0 /\ hw_len = 0
    /\ golden_cols = {} /\ hw_cols = {}
    /\ i = 0
    /\ g_raw = <<>> /\ h_raw = <<>>
    /\ order_ok = TRUE /\ mismatches = <<>>
    /\ results = NoResults
    /\ exit_code = -1
    /\ disagree = {}
    /\ GenIdle

\* self_test, lines 242-244, and main, line 279: the golden trace is missing
SelfTestSkipped ==
    /\ pc = "main" /\ self_test /\ ~golden_exists
    /\ pc' = "exit"
    /\ exit_code' = 0
    /\ UNCHANGED <<self_test, golden_exists, hw_exists, tolerance, golden_len, hw_len,
                   golden_cols, hw_cols, i, g_raw, h_raw, order_ok, mismatches, results>>
    /\ UNCHANGED disagree
    /\ UNCHANGED gvars

\* self_test, lines 246-247: the golden trace is loaded and compared with itself
SelfTestLoad ==
    /\ pc = "main" /\ self_test /\ golden_exists
    /\ \E n \in 0..MaxRows, cols \in ColumnSets :
        /\ golden_len' = n /\ hw_len' = n
        /\ golden_cols' = cols /\ hw_cols' = cols
    /\ tolerance' = DEFAULT_TOLERANCE
    /\ results' = NoResults
    /\ i' = 0
    /\ pc' = "loop"
    /\ UNCHANGED <<self_test, golden_exists, hw_exists, g_raw, h_raw, order_ok,
                   mismatches, exit_code>>
    /\ UNCHANGED disagree
    /\ UNCHANGED gvars

\* load_trace, lines 81-83, called from main, lines 282-283
LoadTraceNotFound ==
    /\ pc = "main" /\ ~self_test
    /\ ~golden_exists \/ ~hw_exists
    /\ pc' = "exit"
    /\ exit_code' = 2
    /\ UNCHANGED <<self_test, golden_exists, hw_exists, tolerance, golden_len, hw_len,
                   golden_cols, hw_cols, i, g_raw, h_raw, order_ok, mismatches, results>>
    /\ UNCHANGED disagree
    /\ UNCHANGED gvars

\* main, lines 282-286: both traces load and compare_traces is entered
LoadTraces ==
    /\ pc = "main" /\ ~self_test
    /\ golden_exists /\ hw_exists
    /\ \E n \in 0..MaxRows, m \in 0..MaxRows, gc \in ColumnSets, hc \in ColumnSets :
        /\ golden_len' = n /\ hw_len' = m
        /\ golden_cols' = gc /\ hw_cols' = hc
    /\ results' = NoResults
    /\ i' = 0
    /\ pc' = "loop"
    /\ UNCHANGED <<self_test, golden_exists, hw_exists, tolerance, g_raw, h_raw,
                   order_ok, mismatches, exit_code>>
    /\ UNCHANGED disagree
    /\ UNCHANGED gvars

\* the cells of one class of golden[i] and hardware[i]; in self-test mode both
\* are the same row
RowCells(fields, g, h) ==
    /\ g \in Cells(fields, golden_cols)
    /\ h \in Cells(fields, hw_cols)
    /\ self_test => h = g

\* lines 123-138: the next row is taken and its exact-match fields are checked
CheckExact ==
    /\ pc = "loop"
    /\ i < NumRows(golden_len, hw_len)
    /\ \E g \in Cells(EXACT_FIELDS, golden_cols), h \in Cells(EXACT_FIELDS, hw_cols) :
        /\ RowCells(EXACT_FIELDS, g, h)
        /\ g_raw' = g /\ h_raw' = h
        /\ LET mm == ExactLoop(EXACT_FIELDS, g, h)
           IN  /\ mismatches' = mm
               /\ order_ok' = (mm = <<>>)
    /\ results' = [results EXCEPT !.total = @ + 1]
    /\ pc' = "approx"
    /\ UNCHANGED <<self_test, golden_exists, hw_exists, tolerance, golden_len, hw_len,
                   golden_cols, hw_cols, i, exit_code>>
    /\ disagree' = Disagreeing(EXACT_FIELDS, g_raw', h_raw', tolerance)
    /\ UNCHANGED gvars

\* lines 141-155: the tolerance fields of the row
CheckApprox ==
    /\ pc = "approx"
    /\ \E g \in Cells(APPROX_FIELDS, golden_cols), h \in Cells(APPROX_FIELDS, hw_cols) :
        /\ RowCells(APPROX_FIELDS, g, h)
        /\ g_raw' = g /\ h_raw' = h
        /\ LET mm == ApproxLoop(APPROX_FIELDS, g, h, tolerance)
           IN  /\ mismatches' = mismatches \o mm
               /\ order_ok' = (order_ok /\ mm = <<>>)
    /\ pc' = "category"
    /\ UNCHANGED <<self_test, golden_exists, hw_exists, tolerance, golden_len, hw_len,
                   golden_cols, hw_cols, i, results, exit_code>>
    /\ disagree' = disagree \cup Disagreeing(APPROX_FIELDS, g_raw', h_raw', tolerance)
    /\ UNCHANGED gvars

\* lines 158-179: the category fields of the row, then the row's tally
CheckCategory ==
    /\ pc = "category"
    /\ \E g \in Cells(CATEGORY_FIELDS, golden_cols), h \in Cells(CATEGORY_FIELDS, hw_cols),
          sc \in Cells(<<"stock">>, golden_cols) :
        /\ RowCells(CATEGORY_FIELDS, g, h)
        /\ ~CategoryRaises(CATEGORY_FIELDS, g, h)
        /\ g_raw' = g /\ h_raw' = h
        /\ LET mm == CategoryLoop(CATEGORY_FIELDS, g, h)
               ok == order_ok /\ mm = <<>>
               stock == IF sc["stock"] = Absent THEN "?" ELSE sc["stock"]
           IN  /\ mismatches' = mismatches \o mm
               /\ order_ok' = ok
               /\ results' = Tally(results, i, ok, stock, mismatches \o mm)
    /\ i' = i + 1
    /\ pc' = "loop"
    /\ UNCHANGED <<self_test, golden_exists, hw_exists, tolerance, golden_len, hw_len,
                   golden_cols, hw_cols, exit_code>>
    /\ disagree' = disagree \cup Disagreeing(CATEGORY_FIELDS, g_raw', h_raw', tolerance)
    /\ UNCHANGED gvars

\* lines 161-162: int(float(...)) raises ValueError, which nothing catches: the
\* interpreter prints the traceback and the process ends with status 1
CheckCategoryRaises ==
    /\ pc = "category"
    /\ \E g \in Cells(CATEGORY_FIELDS, golden_cols), h \in Cells(CATEGORY_FIELDS, hw_cols) :
        /\ RowCells(CATEGORY_FIELDS, g, h)
        /\ CategoryRaises(CATEGORY_FIELDS, g, h)
        /\ g_raw' = g /\ h_raw' = h
    /\ pc' = "raised"
    /\ exit_code' = 1
    /\ UNCHANGED <<self_test, golden_exists, hw_exists, tolerance, golden_len, hw_len,
                   golden_cols, hw_cols, i, order_ok, mismatches, results>>
    /\ disagree' = disagree \cup Disagreeing(CATEGORY_FIELDS, g_raw', h_raw', tolerance)
    /\ UNCHANGED gvars

\* line 181: the loop is over and compare_traces returns results
Return ==
    /\ pc = "loop"
    /\ i >= NumRows(golden_len, hw_len)
    /\ pc' = "returned"
    /\ UNCHANGED <<self_test, golden_exists, hw_exists, tolerance, golden_len, hw_len,
                   golden_cols, hw_cols, i, g_raw, h_raw, order_ok, mismatches, results,
                   exit_code>>
    /\ UNCHANGED disagree
    /\ UNCHANGED gvars

\* main, lines 289-292: the report, then the exit status
MainExit ==
    /\ pc = "returned" /\ ~self_test
    /\ pc' = "exit"
    /\ exit_code' = IF VerdictOk(results) THEN 0 ELSE 1
    /\ UNCHANGED <<self_test, golden_exists, hw_exists, tolerance, golden_len, hw_len,
                   golden_cols, hw_cols, i, g_raw, h_raw, order_ok, mismatches, results>>
    /\ UNCHANGED disagree
    /\ UNCHANGED gvars

\* self_test, lines 249-257, and main, line 279
SelfTestExit ==
    /\ pc = "returned" /\ self_test
    /\ pc' = "exit"
    /\ exit_code' = IF results.failed = 0 /\ results.total > 0 THEN 0 ELSE 1
    /\ UNCHANGED <<self_test, golden_exists, hw_exists, tolerance, golden_len, hw_len,
                   golden_cols, hw_cols, i, g_raw, h_raw, order_ok, mismatches, results>>
    /\ UNCHANGED disagree
    /\ UNCHANGED gvars

Next ==
    \/ SelfTestSkipped
    \/ SelfTestLoad
    \/ LoadTraceNotFound
    \/ LoadTraces
    \/ CheckExact
    \/ CheckApprox
    \/ CheckCategory
    \/ CheckCategoryRaises
    \/ Return
    \/ MainExit
    \/ SelfTestExit

Spec == Init /\ [][Next]_vars
(***************************************************************************)
(* Properties of verify_trace.py, checked under Spec.                      *)
(***************************************************************************)
Final == pc \in {"exit", "raised"}

\* C1: after every row processed and at return, passed + failed = total and
\* details holds one mismatch record per failed row.
C1_TallyConsistent ==
    pc \in {"loop", "returned", "exit"} =>
        /\ results.passed + results.failed = results.total
        /\ Len(results.details) = results.failed

C1_Witness ==
    pc = "returned" /\ results.passed >= 1 /\ results.failed >= 1

\* C2 as claimed: a non-empty trace compared with itself yields failed = 0 and
\* passed = total, whatever strings its rows hold.
C2_SelfCompareNeverFails ==
    (self_test /\ pc = "returned" /\ results.total > 0) =>
        (results.failed = 0 /\ results.passed = results.total)

\* a field of the class read last, present on both sides, one side of which is
\* no number
Unparseable(f) ==
    /\ f \in DOMAIN g_raw
    /\ f \in Range(APPROX_FIELDS) \cup Range(CATEGORY_FIELDS)
    /\ g_raw[f] # Absent /\ h_raw[f] # Absent
    /\ Float(g_raw[f]).kind = "ValueError" \/ Float(h_raw[f]).kind = "ValueError"

\* C3 as claimed: an unparseable tolerance or categorical value is recorded as a
\* mismatch of its row and the run is not aborted.
C3_ParseFailureIsMismatch ==
    \A f \in Range(APPROX_FIELDS) \cup Range(CATEGORY_FIELDS) :
        Unparseable(f) =>
            /\ pc # "raised"
            /\ \E k \in 1..Len(mismatches) : mismatches[k].field = f

\* C7: rows are compared at the indices below both lengths only, total is the
\* shorter length at return, and unequal lengths alone do not fail a run whose
\* overlap is non-empty and matches.
C7_ComparesOverlapOnly ==
    /\ pc \in {"approx", "category"} => (i < golden_len /\ i < hw_len)
    /\ pc = "returned" =>
        results.total = (IF golden_len < hw_len THEN golden_len ELSE hw_len)
    /\ (pc = "exit" /\ ~self_test /\ golden_len # hw_len
            /\ results.total > 0 /\ results.failed = 0) => exit_code = 0

C7_Witness ==
    pc = "exit" /\ golden_len = 2 /\ hw_len = 1 /\ exit_code = 0 /\ results.total = 1

\* the decimal a literal writes, as a fraction: <<numerator, denominator>>
Decimal(s) == LET l == Lexeme(s) IN <<l.sign * l.digits, Pow10(l.scale)>>

\* |a - b| > t for fractions a, b, t
DiffExceeds(a, b, t) ==
    Abs(a[1] * b[2] - b[1] * a[2]) * t[2] > t[1] * a[2] * b[2]

ToleranceText == CHOOSE t \in ToleranceArgs : Float(t) = tolerance

\* C8 as claimed: for a tolerance field present and parseable on both sides, a
\* mismatch is recorded exactly when the two values differ by more than the
\* tolerance; a difference equal to the tolerance passes.
C8_MismatchIffBeyondTolerance ==
    pc = "category" =>
        \A f \in Range(APPROX_FIELDS) :
            (/\ g_raw[f] # Absent /\ h_raw[f] # Absent
             /\ Float(g_raw[f]).kind = "fin" /\ Float(h_raw[f]).kind = "fin") =>
                ((\E k \in 1..Len(mismatches) : mismatches[k].field = f)
                    <=> DiffExceeds(Decimal(g_raw[f]), Decimal(h_raw[f]),
                                    Decimal(ToleranceText)))

\* the same, the two values being the floats parsed and their difference exact
C8_OnParsedFloats ==
    pc = "category" =>
        \A f \in Range(APPROX_FIELDS) :
            (/\ g_raw[f] # Absent /\ h_raw[f] # Absent
             /\ Float(g_raw[f]).kind = "fin" /\ Float(h_raw[f]).kind = "fin") =>
                ((\E k \in 1..Len(mismatches) : mismatches[k].field = f)
                    <=> Abs(Float(g_raw[f]).v - Float(h_raw[f]).v) > tolerance.v)

\* a file the run needs is missing
RequiredInputMissing ==
    IF self_test THEN ~golden_exists ELSE ~golden_exists \/ ~hw_exists

\* C9 as claimed (verifier): with a required input file missing the run halts
\* before any comparison with a status that is neither success (0) nor the
\* ordinary failure (1).
C9_MissingInputHasOwnStatus ==
    (Final /\ RequiredInputMissing) =>
        (results = NoResults /\ exit_code \notin {0, 1})

\* C10: a normal-mode run whose traces both load ends with status 0 exactly
\* when at least one row was compared and none failed (a row on which the
\* comparison raised is not a row that passed), and with status 1 otherwise.
C10_ExitStatus ==
    (Final /\ ~self_test /\ golden_exists /\ hw_exists) =>
        /\ exit_code = 0 <=>
              (pc = "exit" /\ results.total >= 1 /\ results.failed = 0)
        /\ (results.failed >= 1 \/ results.total = 0) => exit_code = 1
        /\ exit_code \in {0, 1}

C10_Witness ==
    /\ pc = "exit" /\ ~self_test /\ golden_exists /\ hw_exists
    /\ exit_code = 0 /\ results.total >= 1

\* row idx has a mismatch record, which is how a row is counted as failed
CountedFailed(idx) ==
    \E k \in 1..Len(results.details) : results.details[k].order_idx = idx

\* C12 as claimed: a row whose comparison was begun is counted as failed exactly
\* when some field held by both rows disagrees under its class policy (fields
\* absent from either row never count).
C12_FailedIffFieldDisagrees ==
    /\ (pc = "loop" /\ i > 0) => (CountedFailed(i - 1) <=> disagree # {})
    /\ pc = "raised" => (CountedFailed(i) <=> disagree # {})

\* the same for the rows whose comparison ran to its tally
C12_OnTalliedRows ==
    (pc = "loop" /\ i > 0) =>
        /\ CountedFailed(i - 1) <=> disagree # {}
        /\ order_ok <=> disagree = {}

\* C13: the mismatch records are in strictly ascending row index (so at most one
\* per row), each index is below total, each record lists at least one field
\* discrepancy, there is one record per failed row, and a row that passed has
\* no record.
C13_MismatchRecords ==
    LET d == results.details IN
    /\ \A k \in 1..Len(d) :
          /\ d[k].order_idx \in 0..(results.total - 1)
          /\ Len(d[k].mismatches) >= 1
    /\ \A k \in 1..(Len(d) - 1) : d[k].order_idx < d[k + 1].order_idx
    /\ pc # "raised" => Len(d) = results.failed
    /\ (pc = "loop" /\ i > 0 /\ order_ok) => ~CountedFailed(i - 1)

\* two rows failed and the verdict holds their two records
C13_Witness ==
    /\ pc = "returned" /\ results.total = 2
    /\ Len(results.details) = 2 /\ results.details[2].order_idx = 1

\* a passed row followed by a failed one: the only record carries index 1
C13_PassedThenFailed ==
    /\ pc = "returned" /\ results.passed = 1
    /\ Len(results.details) = 1 /\ results.details[1].order_idx = 1

\* a tallied row whose sides declare different columns and agree on the shared
\* ones passes
C12_ColumnsAloneWitness ==
    /\ pc = "loop" /\ i > 0 /\ golden_cols # hw_cols
    /\ order_ok /\ results.passed >= 1

(***************************************************************************)
(* generate_itch_data.py: pack_add_order.                                  *)
(* A Python int is kept as a sign and the big-endian bytes of its          *)
(* magnitude without leading zeros; a str as the sequence of its           *)
(* characters' code points.                                                *)
(***************************************************************************)
ITCH_ADD_ORDER == 65

ADD_ORDER_SIZE == 36

STOCK_FIELD_LEN == 8

Pos(bytes) == [neg |-> FALSE, mag |-> bytes]

Neg(bytes) == [neg |-> TRUE, mag |-> bytes]

Zeros(n) == [k \in 1..n |-> 0]

Spaces(n) == [k \in 1..n |-> 32]

Reverse(seq) == [k \in 1..Len(seq) |-> seq[Len(seq) + 1 - k]]

\* 0 <= x < 2 ** (8 * n)
FitsUnsigned(x, n) == ~x.neg /\ Len(x.mag) <= n

\* the n big-endian bytes of x (int.to_bytes(n, 'big'), struct '>H', '>I', '>Q')
BigEndianMut(x, n) == Reverse(Zeros(n - Len(x.mag)) \o x.mag)

BigEndian(x, n) == Zeros(n - Len(x.mag)) \o x.mag

\* line 92: len(stock) <= STOCK_FIELD_LEN
StockLenOkMut(stock) == TRUE

StockLenOk(stock) == Len(stock) <= STOCK_FIELD_LEN

\* bytes.ljust(n, b' ')
Ljust(b, n) == IF Len(b) >= n THEN b ELSE b \o Spaces(n - Len(b))

\* struct's 'ns': the first n bytes, NUL-padded
PackS(b, n) == IF Len(b) >= n THEN SubSeq(b, 1, n) ELSE b \o Zeros(n - Len(b))

Raised(what) == [raised |-> what, msg |-> <<>>]

\* pack_add_order, lines 51-126
pack_add_order(ts, ref, side, shares, stock, price_raw, stock_locate, tracking_num) ==
    IF ~(side = <<66>> \/ side = <<83>>) THEN Raised("AssertionError")       \* line 89
    ELSE IF ~FitsUnsigned(shares, 4) THEN Raised("AssertionError")          \* line 90
    ELSE IF ~FitsUnsigned(price_raw, 4) THEN Raised("AssertionError")       \* line 91
    ELSE IF ~StockLenOk(stock) THEN Raised("AssertionError")                \* line 92
    ELSE IF \E k \in 1..Len(stock) : stock[k] > 127
         THEN Raised("UnicodeEncodeError")                                  \* line 95
    ELSE IF ~FitsUnsigned(ts, 6) THEN Raised("OverflowError")               \* line 107
    ELSE IF ~FitsUnsigned(stock_locate, 2) \/ ~FitsUnsigned(tracking_num, 2)
         THEN Raised("struct.error")                                        \* line 109
    ELSE IF ~FitsUnsigned(ref, 8) THEN Raised("struct.error")               \* line 116
    ELSE LET stock_bytes == Ljust(stock, STOCK_FIELD_LEN)
             msg == <<ITCH_ADD_ORDER>>
                    \o BigEndian(stock_locate, 2)
                    \o BigEndian(tracking_num, 2)
                    \o BigEndian(ts, 6)
                    \o BigEndian(ref, 8)
                    \o side
                    \o BigEndian(shares, 4)
                    \o PackS(stock_bytes, 8)
                    \o BigEndian(price_raw, 4)
         IN  IF Len(msg) # ADD_ORDER_SIZE THEN Raised("AssertionError")     \* line 125
             ELSE [raised |-> "", msg |-> msg]

\* The arguments the model hands to pack_add_order.
TimestampArgs ==
    { Pos(<<31, 26, 206, 217, 240, 0>>),               \* 34_200_000_000_000
      Pos(<<255, 255, 255, 255, 255, 255>>),           \* 2**48 - 1
      Pos(<<1, 0, 0, 0, 0, 0, 0>>),                    \* 2**48
      Neg(<<1>>) }
OrderRefArgs ==
    { Pos(<<1>>),
      Pos(<<255, 255, 255, 255, 255, 255, 255, 255>>), \* 2**64 - 1
      Pos(<<1, 0, 0, 0, 0, 0, 0, 0, 0>>),              \* 2**64
      Pos(<<>>) }                                      \* 0
SideArgs == { <<66>>, <<83>>, <<88>>, <<>>, <<66, 83>> }   \* 'B' 'S' 'X' '' 'BS'
SharesArgs ==
    { Pos(<<>>), Pos(<<100>>),
      Pos(<<255, 255, 255, 255>>),                     \* 2**32 - 1
      Pos(<<1, 0, 0, 0, 0>>),                          \* 2**32
      Neg(<<1>>) }
StockArgs ==
    { <<>>,
      <<65, 65, 80, 76>>,                              \* 'AAPL'
      <<65, 76, 80, 72, 65, 66, 69, 84>>,              \* 'ALPHABET'
      <<65, 76, 80, 72, 65, 66, 69, 84, 88>>,          \* 'ALPHABETX'
      <<65, 201>>,                                     \* 'A' and a non-ASCII letter
      <<65, 66, 32>> }                                 \* 'AB '
PriceArgs ==
    { Pos(<<22, 237, 36>>),                            \* 1502500
      Pos(<<255, 255, 255, 255>>),
      Pos(<<1, 0, 0, 0, 0>>),
      Neg(<<1>>) }
LocateArgs == { Pos(<<>>), Pos(<<2, 1>>), Pos(<<1, 0, 0>>) }   \* 0, 513, 65536

VerIdle ==
    /\ pc = "idle" /\ self_test = FALSE /\ golden_exists = FALSE /\ hw_exists = FALSE
    /\ tolerance = DEFAULT_TOLERANCE /\ golden_len = 0 /\ hw_len = 0
    /\ golden_cols = {} /\ hw_cols = {} /\ i = 0 /\ g_raw = <<>> /\ h_raw = <<>>
    /\ order_ok = TRUE /\ mismatches = <<>> /\ results = NoResults /\ exit_code = -1
    /\ disagree = {}

InitPack ==
    /\ VerIdle
    /\ gpc = "call"
    /\ call \in [timestamp_ns : TimestampArgs, order_ref : OrderRefArgs, side : SideArgs,
                 shares : SharesArgs, stock : StockArgs, price_raw : PriceArgs,
                 stock_locate : LocateArgs, tracking_num : {Pos(<<>>)}]
    /\ ret = <<>> /\ row_stock = <<>>
    /\ order_ref = 0 /\ timestamp_ns = <<>> /\ written = <<>> /\ gen_exit = -1
    /\ input_exists = FALSE /\ csv_rows = 0
    /\ csv_wanted = FALSE /\ csv_open = FALSE /\ bin_open = FALSE
    /\ synthetic = FALSE /\ num_orders = 0 /\ run = 0

\* one call of pack_add_order
PackCall ==
    /\ gpc = "call"
    /\ ret' = pack_add_order(call.timestamp_ns, call.order_ref, call.side, call.shares,
                             call.stock, call.price_raw, call.stock_locate,
                             call.tracking_num)
    /\ gpc' = "called"
    /\ UNCHANGED <<call, row_stock, order_ref, timestamp_ns, written, input_exists,
                   csv_rows, csv_wanted, csv_open, bin_open, gen_exit, synthetic,
                   num_orders, run>>
    /\ UNCHANGED vvars

NextPack == PackCall

SpecPack == InitPack /\ [][NextPack]_vars

(***************************************************************************)
(* Properties of pack_add_order, checked under SpecPack.                   *)
(***************************************************************************)
\* x is an unsigned value of at most n bytes, stated on the value itself
Below256Pow(x, n) == x.neg = FALSE /\ Len(x.mag) < n + 1

InvalidEvent ==
    \/ call.side \notin {<<66>>, <<83>>}
    \/ ~Below256Pow(call.shares, 4)
    \/ ~Below256Pow(call.price_raw, 4)
    \/ Len(call.stock) > 8
    \/ ~Below256Pow(call.timestamp_ns, 6)

\* C5: a call with a side other than 'B'/'S', shares or price outside 32 bits,
\* a symbol of more than 8 characters or a timestamp outside 48 bits raises and
\* returns no bytes; a returned message never holds a wrapped or cut field.
C5_InvalidEventRejected ==
    (gpc = "called" /\ InvalidEvent) => (ret.raised # "" /\ ret.msg = <<>>)

C5_Witness ==
    /\ gpc = "called" /\ ret.raised = "AssertionError"
    /\ Len(call.stock) = 9 /\ call.side = <<66>>
    /\ Below256Pow(call.shares, 4) /\ Below256Pow(call.price_raw, 4)
    /\ Below256Pow(call.timestamp_ns, 6)

ValidEvent ==
    /\ call.side \in {<<66>>, <<83>>}
    /\ Below256Pow(call.shares, 4)
    /\ Below256Pow(call.price_raw, 4)
    /\ Below256Pow(call.timestamp_ns, 6)
    /\ Below256Pow(call.order_ref, 8)
    /\ Below256Pow(call.stock_locate, 2)
    /\ Below256Pow(call.tracking_num, 2)
    /\ Len(call.stock) \in 1..8
    /\ \A k \in 1..Len(call.stock) : call.stock[k] \in 33..126

\* the unsigned big-endian integer in size bytes at offset off, as a magnitude
RECURSIVE DropLeadingZeros(_)
DropLeadingZeros(b) ==
    IF b = <<>> \/ Head(b) # 0 THEN b ELSE DropLeadingZeros(Tail(b))

DecodeUInt(msg, off, size) == DropLeadingZeros(SubSeq(msg, off + 1, off + size))

\* the text in size bytes at offset off, its space padding removed
RECURSIVE DropTrailingSpaces(_)
DropTrailingSpaces(b) ==
    IF b = <<>> \/ b[Len(b)] # 32 THEN b
    ELSE DropTrailingSpaces(SubSeq(b, 1, Len(b) - 1))

DecodeText(msg, off, size) == DropTrailingSpaces(SubSeq(msg, off + 1, off + size))

\* C6: a valid event packs into 36 bytes from which decoding at the fixed
\* big-endian offsets recovers every field, the symbol without its padding.
C6_RoundTrip ==
    (gpc = "called" /\ ValidEvent) =>
        /\ ret.raised = ""
        /\ Len(ret.msg) = 36
        /\ ret.msg[1] = 65
        /\ DecodeUInt(ret.msg, 1, 2) = call.stock_locate.mag
        /\ DecodeUInt(ret.msg, 3, 2) = call.tracking_num.mag
        /\ DecodeUInt(ret.msg, 5, 6) = call.timestamp_ns.mag
        /\ DecodeUInt(ret.msg, 11, 8) = call.order_ref.mag
        /\ SubSeq(ret.msg, 20, 20) = call.side
        /\ DecodeUInt(ret.msg, 20, 4) = call.shares.mag
        /\ DecodeText(ret.msg, 24, 8) = call.stock
        /\ DecodeUInt(ret.msg, 32, 4) = call.price_raw.mag

C6_Witness ==
    /\ gpc = "called" /\ ValidEvent /\ ret.raised = ""
    /\ Len(call.stock) = 4
    /\ call.price_raw.mag = <<22, 237, 36>>
    /\ call.stock_locate.mag = <<2, 1>>
    /\ call.order_ref.mag = <<255, 255, 255, 255, 255, 255, 255, 255>>

(***************************************************************************)
(* generate_itch_data.py: main, generate_from_csv, generate_synthetic and  *)
(* write_output.                                                           *)
(***************************************************************************)
\* base_timestamp_ns, line 129: 34_200_000_000_000
BaseTimestamp == Pos(<<31, 26, 206, 217, 240, 0>>)

\* bytes + k for a small k >= 0
RECURSIVE AddSmall(_, _)
AddSmall(bytes, k) ==
    IF k = 0 THEN bytes
    ELSE IF bytes = <<>> THEN AddSmall(<<>>, k \div 256) \o <<k % 256>>
    ELSE LET sum == bytes[Len(bytes)] + k
         IN  AddSmall(SubSeq(bytes, 1, Len(bytes) - 1), sum \div 256) \o <<sum % 256>>

\* the int n >= 0 of the model as a Python int
IntOf(n) == Pos(AddSmall(<<>>, n))

\* str.strip()
RECURSIVE LStrip(_)
LStrip(str) == IF str = <<>> \/ Head(str) # 32 THEN str ELSE LStrip(Tail(str))

StripText(str) == Reverse(LStrip(Reverse(LStrip(str))))

\* str.upper() on ASCII letters
Upper(str) == [k \in 1..Len(str) |-> IF str[k] \in 97..122 THEN str[k] - 32 ELSE str[k]]

\* line 164: stock.strip().upper()[:STOCK_FIELD_LEN]
RowStock(cell) ==
    LET up == Upper(StripText(cell))
    IN  IF Len(up) > STOCK_FIELD_LEN THEN SubSeq(up, 1, STOCK_FIELD_LEN) ELSE up

\* The cells of the source rows of the model.
NoCell == <<0>>
StockCells ==
    { NoCell,                                          \* no symbol/ticker/stock column
      <<65, 76, 80, 72, 65, 66, 69, 84, 88>>,          \* 'ALPHABETX'
      <<32, 109, 115, 102, 116, 32>> }                 \* ' msft '
PriceCells == {"150.25", "500000"}
SideCells == { NoCell, <<115>> }                       \* no side column, 's'
SharesCells == {"", "250"}
LotSizes == {100, 1000}
Gaps == {100, 10000}

\* generate_synthetic: the symbols of --symbols, the inter-arrival gaps of a
\* burst (lines 283-285) and of a quiet period (lines 286-288)
SyntheticSymbols ==
    { <<65, 65, 80, 76>>,                              \* 'AAPL'
      <<65, 76, 80, 72, 65, 66, 69, 84, 88>> }         \* 'ALPHABETX'
BurstGaps == {100, 500}
NormalGaps == {1000, 10000}

\* lines 167-169: int(round(float(price_str) * PRICE_SCALE))
PriceRaw(cell) ==
    IF cell = "150.25" THEN Pos(<<22, 237, 36>>)       \* 1502500
    ELSE Pos(<<1, 42, 5, 242, 0>>)                     \* "500000": 5000000000

\* lines 172-174: the side of the row, alternating when the row gives none
RowSide(cell, ref) ==
    LET side == IF cell = NoCell THEN <<>> ELSE Upper(StripText(cell))
    IN  IF side = <<66>> \/ side = <<83>> THEN side
        ELSE IF ref % 2 = 1 THEN <<66>> ELSE <<83>>

\* lines 207 and 310: order_ref += 1
NextOrderRefMut(ref) == ref + 2

NextOrderRef(ref) == ref + 1

\* the arguments of a run; those its mode does not read are held fixed
ArgsOk(syn, exists, rows, orders) ==
    IF syn THEN ~exists /\ rows = 0 ELSE orders = 0

GenInit ==
    /\ VerIdle
    /\ gpc = "main"
    /\ run = 1
    /\ synthetic \in BOOLEAN
    /\ input_exists \in BOOLEAN
    /\ csv_rows \in 0..MaxCsvRows
    /\ num_orders \in 0..MaxOrders
    /\ ArgsOk(synthetic, input_exists, csv_rows, num_orders)
    /\ csv_wanted \in BOOLEAN
    /\ csv_open = FALSE /\ bin_open = FALSE
    /\ call = <<>> /\ ret = <<>> /\ row_stock = <<>>
    /\ order_ref = 0 /\ timestamp_ns = <<>> /\ written = <<>> /\ gen_exit = -1

\* main, lines 398-400: the source file is missing
InputNotFound ==
    /\ gpc = "main" /\ ~synthetic /\ ~input_exists
    /\ gen_exit' = 1
    /\ gpc' = "exit"
    /\ UNCHANGED <<call, ret, row_stock, order_ref, timestamp_ns, written, input_exists,
                   csv_rows, csv_wanted, csv_open, bin_open, synthetic, num_orders, run>>
    /\ UNCHANGED vvars

\* main, lines 401-405, write_output, lines 315-327 (csv_file is opened with a
\* plain open(), bf by a with statement), generate_from_csv, lines 152-153
StartCsv ==
    /\ gpc = "main" /\ ~synthetic /\ input_exists
    /\ csv_open' = csv_wanted
    /\ bin_open' = TRUE
    /\ written' = <<>>
    /\ timestamp_ns' = BaseTimestamp
    /\ order_ref' = 1
    /\ gpc' = "rows"
    /\ UNCHANGED <<call, ret, row_stock, input_exists, csv_rows, csv_wanted,
                   gen_exit, synthetic, num_orders, run>>
    /\ UNCHANGED vvars

\* generate_from_csv, lines 161-207, and write_output, lines 328-332: one source
\* row becomes one record of the binary file, or pack_add_order raises, which
\* nothing catches: the with statement of line 327 closes bf on the way out,
\* line 335 is not reached, and the process ends with status 1
CsvRow ==
    /\ gpc = "rows" /\ ~synthetic
    /\ Len(written) < csv_rows
    /\ \E sc \in StockCells, price_str \in PriceCells, dc \in SideCells, hc \in SharesCells,
          lot \in LotSizes, gap \in Gaps :
        LET stock == RowStock(IF sc = NoCell THEN <<65, 65, 80, 76>> ELSE sc)
            price_raw == PriceRaw(price_str)
            side == RowSide(dc, order_ref)
            shares == IF hc = "" THEN IntOf(lot) ELSE IntOf(250)
            ts == Pos(AddSmall(timestamp_ns.mag, gap))
            args == [timestamp_ns |-> ts, order_ref |-> IntOf(order_ref), side |-> side,
                     shares |-> shares, stock |-> stock, price_raw |-> price_raw,
                     stock_locate |-> Pos(<<>>), tracking_num |-> Pos(<<>>)]
            r == pack_add_order(ts, IntOf(order_ref), side, shares, stock, price_raw,
                                Pos(<<>>), Pos(<<>>))
        IN  /\ hc = "250" => lot = 100
            /\ row_stock' = sc
            /\ timestamp_ns' = ts
            /\ call' = args
            /\ ret' = r
            /\ IF r.raised = ""
               THEN /\ written' = Append(written, r.msg)
                    /\ order_ref' = NextOrderRef(order_ref)
                    /\ gpc' = "rows"
                    /\ gen_exit' = gen_exit
                    /\ bin_open' = bin_open
               ELSE /\ written' = written
                    /\ order_ref' = order_ref
                    /\ gpc' = "raised"
                    /\ gen_exit' = 1
                    /\ bin_open' = FALSE
    /\ UNCHANGED <<input_exists, csv_rows, csv_wanted, csv_open, synthetic, num_orders,
                   run>>
    /\ UNCHANGED vvars

\* the source rows are used up: write_output, lines 333-337, leaves the with
\* block, closes csv_file and returns; main prints the summary
CsvDone ==
    /\ gpc = "rows" /\ ~synthetic
    /\ Len(written) >= csv_rows
    /\ bin_open' = FALSE
    /\ csv_open' = FALSE
    /\ gpc' = "exit"
    /\ gen_exit' = 0
    /\ UNCHANGED <<call, ret, row_stock, order_ref, timestamp_ns, written, input_exists,
                   csv_rows, csv_wanted, synthetic, num_orders, run>>
    /\ UNCHANGED vvars

\* main, lines 390-396 and 405, write_output, lines 315-327, generate_synthetic,
\* lines 248-249
StartSynthetic ==
    /\ gpc = "main" /\ synthetic
    /\ csv_open' = csv_wanted
    /\ bin_open' = TRUE
    /\ written' = <<>>
    /\ timestamp_ns' = BaseTimestamp
    /\ order_ref' = 1
    /\ gpc' = "rows"
    /\ UNCHANGED <<call, ret, row_stock, input_exists, csv_rows, csv_wanted,
                   gen_exit, synthetic, num_orders, run>>
    /\ UNCHANGED vvars

\* generate_synthetic, lines 254-310, and write_output, lines 328-332: one
\* iteration of the loop over range(num_orders). The symbol, the side, the
\* price after the random walk, the lot size and the gap are random draws.
SyntheticRow ==
    /\ gpc = "rows" /\ synthetic
    /\ Len(written) < num_orders
    /\ \E stock \in SyntheticSymbols, side \in {<<66>>, <<83>>}, price_str \in PriceCells,
          lot \in LotSizes, gap \in BurstGaps \cup NormalGaps :
        LET price_raw == PriceRaw(price_str)
            ts == Pos(AddSmall(timestamp_ns.mag, gap))
            args == [timestamp_ns |-> ts, order_ref |-> IntOf(order_ref), side |-> side,
                     shares |-> IntOf(lot), stock |-> stock, price_raw |-> price_raw,
                     stock_locate |-> Pos(<<>>), tracking_num |-> Pos(<<>>)]
            r == pack_add_order(ts, IntOf(order_ref), side, IntOf(lot), stock, price_raw,
                                Pos(<<>>), Pos(<<>>))
        IN  /\ timestamp_ns' = ts
            /\ call' = args
            /\ ret' = r
            /\ IF r.raised = ""
               THEN /\ written' = Append(written, r.msg)
                    /\ order_ref' = NextOrderRef(order_ref)
                    /\ gpc' = "rows"
                    /\ gen_exit' = gen_exit
                    /\ bin_open' = bin_open
               ELSE /\ written' = written
                    /\ order_ref' = order_ref
                    /\ gpc' = "raised"
                    /\ gen_exit' = 1
                    /\ bin_open' = FALSE
    /\ UNCHANGED <<row_stock, input_exists, csv_rows, csv_wanted, csv_open, synthetic,
                   num_orders, run>>
    /\ UNCHANGED vvars

\* range(num_orders) is used up: write_output, lines 333-337, closes the files
\* and returns; main prints the summary
SyntheticDone ==
    /\ gpc = "rows" /\ synthetic
    /\ Len(written) >= num_orders
    /\ bin_open' = FALSE
    /\ csv_open' = FALSE
    /\ gpc' = "exit"
    /\ gen_exit' = 0
    /\ UNCHANGED <<call, ret, row_stock, order_ref, timestamp_ns, written, input_exists,
                   csv_rows, csv_wanted, synthetic, num_orders, run>>
    /\ UNCHANGED vvars

\* The generator is run once more, with arguments of its own and a new output.
\* The process of the run before is gone and its files with it; order_ref and
\* timestamp_ns keep what that run left until the new run assigns them.
NewRun ==
    /\ gpc \in {"exit", "raised"}
    /\ run < MaxRuns
    /\ run' = run + 1
    /\ gpc' = "main"
    /\ gen_exit' = -1
    /\ synthetic' \in BOOLEAN
    /\ input_exists' \in BOOLEAN
    /\ csv_rows' \in 0..MaxCsvRows
    /\ num_orders' \in 0..MaxOrders
    /\ ArgsOk(synthetic', input_exists', csv_rows', num_orders')
    /\ csv_wanted' \in BOOLEAN
    /\ csv_open' = FALSE /\ bin_open' = FALSE
    /\ call' = <<>> /\ ret' = <<>> /\ row_stock' = <<>> /\ written' = <<>>
    /\ UNCHANGED <<order_ref, timestamp_ns>>
    /\ UNCHANGED vvars

NextGen ==
    \/ InputNotFound
    \/ StartCsv
    \/ CsvRow
    \/ CsvDone
    \/ StartSynthetic
    \/ SyntheticRow
    \/ SyntheticDone
    \/ NewRun

SpecGen == GenInit /\ [][NextGen]_vars

(***************************************************************************)
(* Properties of the generator, checked under SpecGen.                     *)
(***************************************************************************)
\* the symbol of the source row handled last, as the adapter reads it
SourceSymbol == Upper(StripText(row_stock))

\* C4 as claimed: a source row whose symbol has more than 8 characters yields
\* no encoded message; the event fails validation.
C4_LongSymbolRejected ==
    (gpc \in {"rows", "raised", "exit"} /\ row_stock # <<>> /\ row_stock # NoCell
        /\ Len(SourceSymbol) > 8) =>
            (ret.raised # "" /\ gpc = "raised")

\* C9, generator side: with the source file missing the run ends with status 1,
\* the status an uncaught validation failure ends with too.
GenMissingInputStatus ==
    (gpc = "exit" /\ ~synthetic /\ ~input_exists) => (gen_exit = 1 /\ written = <<>>)

\* C11 as claimed: every file write_output opened is released on every path out
\* of write_output, a validation failure of the producer after some records
\* were written included.
C11_FilesReleased ==
    gpc \in {"raised", "exit"} => (~bin_open /\ ~csv_open)

\* the binary file alone is released on every path
BinFileReleased ==
    gpc \in {"raised", "exit"} => ~bin_open

\* a < b for two unsigned integers given as big-endian bytes without leading zeros
BytesLess(a, b) ==
    \/ Len(a) < Len(b)
    \/ /\ Len(a) = Len(b)
       /\ \E k \in 1..Len(a) : a[k] < b[k] /\ \A j \in 1..(k - 1) : a[j] = b[j]

\* the order reference and the timestamp the k-th emitted message carries
EventRef(k) == DecodeUInt(written[k], 11, 8)

EventTime(k) == DecodeUInt(written[k], 5, 6)

\* C14: in every run of either generator the k-th emitted event carries order
\* reference k and a timestamp above the base timestamp and above that of the
\* event before it; while the run is emitting, its counter is one more than
\* the number of events emitted, whatever earlier runs left behind.
C14_SequentialRefsRisingTimes ==
    /\ \A k \in 1..Len(written) :
          /\ EventRef(k) = AddSmall(<<>>, k)
          /\ BytesLess(BaseTimestamp.mag, EventTime(k))
          /\ k > 1 => BytesLess(EventTime(k - 1), EventTime(k))
    /\ gpc = "rows" =>
          /\ order_ref = Len(written) + 1
          /\ written = <<>> => timestamp_ns = BaseTimestamp
          /\ written # <<>> => timestamp_ns.mag = EventTime(Len(written))

\* a second run, synthetic, has emitted two events after an earlier run left
\* its counters advanced
C14_Witness ==
    /\ run = 2 /\ synthetic /\ gpc = "exit" /\ gen_exit = 0
    /\ Len(written) = 2

\* the same for a second run that reads a source file
C14_CsvWitness ==
    /\ run = 2 /\ ~synthetic /\ gpc = "exit" /\ gen_exit = 0
    /\ Len(written) = 2

\* a run starts while the counters still hold what the run before left
C14_StaleCountersWitness ==
    /\ run = 2 /\ gpc = "main" /\ order_ref = 3
    /\ BytesLess(BaseTimestamp.mag, timestamp_ns.mag)

====
